---- MODULE Spec2Model ----
(***************************************************************************)
(* FlipLens resilient API-access layer: the expiring cache store           *)
(* (frontend/src/utils/offlineCache.ts), the request pipeline              *)
(* (frontend/src/services/api.ts): transport client with its response      *)
(* interceptor, categorizeError, retryRequest and the apiService facade,   *)
(* the error-presentation hook useErrorHandler with ErrorDisplay and       *)
(* SearchScreen, useOfflineDetection, and AuthProvider.                    *)
(*                                                                         *)
(* The specifications of this module share its definitions:                *)
(*   Spec            the application: the apiService operations through    *)
(*                   the full pipeline, with the two exported cache        *)
(*                   instances and DEFAULT_RETRY_CONFIG;                   *)
(*   SpecSaved       the application when only the saved-items operations  *)
(*                   and the health check are invoked;                     *)
(*   SpecFull        searchItems in a session that finds the search cache  *)
(*                   holding maxItems entries;                             *)
(*   SpecRetry       retryRequest run with other RetryConfig arguments;    *)
(*   SpecClassifier  categorizeError applied to each error object;         *)
(*   SpecCache       one OfflineCache instance called directly (as the     *)
(*                   unit tests of offlineCache.ts do), with a             *)
(*                   millisecond clock;                                    *)
(*   SpecFaults      the same instance over a localStorage that can fail;  *)
(*   SpecAges        the same instance, set called with every kind of      *)
(*                   maxAge argument;                                      *)
(*   SpecUi          one component's useErrorHandler;                      *)
(*   SpecHook        the same hook, retry also called through the callback *)
(*                   of an earlier render;                                 *)
(*   SpecScreen      SearchScreen: ErrorDisplay over useErrorHandler;      *)
(*   SpecOverlap     invocations of the cacheable reads that overlap;      *)
(*   SpecNet         one component's useOfflineDetection;                  *)
(*   SpecAuth        AuthProvider from its first render;                   *)
(*   SpecSession     getSavedItems across the sessions of several users.   *)
(***************************************************************************)
EXTENDS Integers, Sequences, FiniteSets, TLC

(***************************************************************************)
(* Bounds of the model.                                                    *)
(***************************************************************************)
MaxNowCache == 3
MaxTestItems == 2
MaxPolicyRetries == 2
MaxTicksApi == 1
MaxInvocations == 2
MaxFlights == 2

(***************************************************************************)
(* Values.                                                                 *)
(***************************************************************************)
\* An optional value: <<>> is null/undefined, <<v>> is v.
None == <<>>
Some(v) == <<v>>

Queries == {"tv", "get_tv"}
PayloadIds == {"p1", "p2"}
\* A JSON response body: an opaque result set that echoes the query.
Payloads == [id : PayloadIds, query : Queries \cup {"-"}]

SEARCH_CACHE == "fliplens_search_cache"
SAVED_CACHE == "fliplens_saved_items_cache"
TEST_CACHE == "test_cache"
StorageKeys == {SEARCH_CACHE, SAVED_CACHE, TEST_CACHE}

\* Keys used against the directly driven instance.  "3" is a canonical
\* array-index string, the others are ordinary property names.
TestKeys == {"key1", "key2", "3"}
IndexValue(k) == CASE k = "3" -> 3 [] OTHER -> -1
IsArrayIndex(k) == IndexValue(k) >= 0

VARIABLES
    now,          \* Date.now()
    enabled,      \* config.enableOfflineCache
    storage,      \* localStorage: storage key -> None | Some(serialized cache)
    conf,         \* storage key -> CacheConfig of the instance
    lastCall,     \* the last OfflineCache method called directly, and its outcome
    insertLog,    \* distinct keys inserted into test_cache since it was last empty
    logOk         \* insertLog describes the whole history since the store was empty

cacheVars == <<now, enabled, storage, conf, lastCall, insertLog, logOk>>

\* The one apiService invocation in progress (api.ts).
VARIABLES
    pc,           \* "idle" | "call" | "sleep" | "done": position of the one invocation
    req,          \* the operation invoked and its parameters
    retryConfig,  \* the RetryConfig retryRequest runs with
    attempt,      \* retryRequest's loop variable
    calls,        \* transport calls made in this invocation
    waits,        \* the setTimeout delays slept in this invocation, in order
    delay,        \* the delay of the pending setTimeout
    lastStatus,   \* HTTP status answered to the last attempt (0: no response)
    intercepted,  \* None | Some(ApiError) the interceptor rejected with, last failed attempt
    lastError,    \* None | Some(ApiError) retryRequest classified, last failed attempt
    allServer,    \* every failed attempt so far was answered 500/502/503/504
    result,       \* what the operation handed to its caller
    probe,        \* set when retryRequest threw: the time, and the item stored under the key
    cacheReads,   \* OfflineCache.get calls made by this invocation
    cacheWrites,  \* OfflineCache.set calls made by this invocation
    invocations,  \* operations started so far
    ticks         \* clock jumps taken so far

apiVars == <<pc, req, retryConfig, attempt, calls, waits, delay, lastStatus, intercepted,
             lastError, allServer, result, probe, cacheReads, cacheWrites, invocations, ticks>>

\* One component using useErrorHandler (hooks, useErrorHandler).
VARIABLES
    errorState,   \* the hook's React state
    rendered,     \* the errorState of the last render: what the current `retry` closes over
    inflight,     \* retry() calls awaiting their retryFn
    lastRetry,    \* the last retry() call: the state it found and whether it ran retryFn
    thunk         \* the last retryFn of SearchScreen whose repeated request failed

uiVars == <<errorState, rendered, inflight, lastRetry, thunk>>

\* categorizeError called on its own (api.ts 39-128).
VARIABLES
    thrown,       \* None | Some(the error object categorizeError was called with)
    classified    \* None | Some(the ApiError it returned)

clsVars == <<thrown, classified>>

\* Invocations of cacheable reads that overlap (api.ts, apiService).
VARIABLES
    flights,      \* invocation -> its operation, query and, once answered, the body
    arrivals      \* the invocations answered so far, in the order of their responses

flightVars == <<flights, arrivals>>

\* One component using useOfflineDetection (hooks/useOfflineDetection.ts).
VARIABLES
    offlineState, \* the hook's React state
    nav           \* navigator and window: the connection object, the listeners, the events

netVars == <<offlineState, nav>>

\* AuthProvider (contexts/AuthContext.tsx) and the session it keeps in
\* localStorage.
VARIABLES
    auth,         \* the provider's React state: user, token, isLoading
    local,        \* localStorage: fliplens_token and fliplens_user
    authCalls     \* the provider's async functions in progress

authVars == <<auth, local, authCalls>>

appVars == <<flightVars, netVars, authVars>>

vars == <<now, enabled, storage, conf, lastCall, insertLog, logOk,
          pc, req, retryConfig, attempt, calls, waits, delay, lastStatus, intercepted,
          lastError, allServer, result, probe, cacheReads, cacheWrites, invocations, ticks,
          errorState, rendered, inflight, lastRetry, thunk, thrown, classified,
          flights, arrivals, offlineState, nav, auth, local, authCalls>>

(***************************************************************************)
(* OfflineCache (offlineCache.ts).  The cache object is a sequence of      *)
(* items [key, data, timestamp, expiresAt] in the order Object.keys        *)
(* enumerates them: array-index keys in ascending numeric order first,     *)
(* then the other keys in insertion order.  JSON.stringify writes and      *)
(* JSON.parse restores the properties in that same order.                  *)
(***************************************************************************)
KeysOf(cache) == [i \in 1..Len(cache) |-> cache[i].key]

HasKey(cache, k) == \E i \in 1..Len(cache) : cache[i].key = k

ItemOf(cache, k) == cache[CHOOSE i \in 1..Len(cache) : cache[i].key = k]

\* delete cache[key]
Delete(cache, k) == SelectSeq(cache, LAMBDA it : it.key # k)

\* Position of a new property k among the existing ones.
InsertPos(cache, k) ==
    IF IsArrayIndex(k)
    THEN Cardinality({i \in 1..Len(cache) :
            IsArrayIndex(cache[i].key) /\ IndexValue(cache[i].key) < IndexValue(k)}) + 1
    ELSE Len(cache) + 1

\* cache[key] = item
AssignIfAbsent(cache, item) ==
    IF HasKey(cache, item.key)
    THEN cache
    ELSE LET p == InsertPos(cache, item.key)
         IN  SubSeq(cache, 1, p - 1) \o <<item>> \o SubSeq(cache, p, Len(cache))

Assign(cache, item) ==
    IF HasKey(cache, item.key)
    THEN [i \in 1..Len(cache) |-> IF cache[i].key = item.key THEN item ELSE cache[i]]
    ELSE LET p == InsertPos(cache, item.key)
         IN  SubSeq(cache, 1, p - 1) \o <<item>> \o SubSeq(cache, p, Len(cache))

\* JSON.stringify / JSON.parse of the cache object: the serialized form is
\* the ordered list of (key, item) members.
Stringify(cache) == [i \in 1..Len(cache) |->
    <<cache[i].key, cache[i].data, cache[i].timestamp, cache[i].expiresAt>>]
Parse(text) == [i \in 1..Len(text) |->
    [key |-> text[i][1], data |-> text[i][2], timestamp |-> text[i][3], expiresAt |-> text[i][4]]]

\* A stored text that JSON.parse rejects ('invalid json').
InvalidJson == << <<>> >>

\* getCache(): a missing item and a text that does not parse both give {}.
getCache(slot) ==
    IF slot = None THEN <<>>
    ELSE IF slot[1] = InvalidJson THEN <<>>
    ELSE Parse(slot[1])

setCache(cache) == Some(Stringify(cache))

\* keys.sort((a, b) => cache[a].timestamp - cache[b].timestamp): a stable
\* sort, so a key comes after the keys with a smaller timestamp and after
\* the keys with the same timestamp that preceded it.
SortByTimestamp(keys, cache) ==
    LET n    == Len(keys)
        ts   == [j \in 1..n |-> ItemOf(cache, keys[j]).timestamp] \o <<>>
        rank == [j \in 1..n |->
                    Cardinality({i \in 1..n : ts[i] < ts[j] \/ (ts[i] = ts[j] /\ i < j)}) + 1]
                \o <<>>
    IN  [p \in 1..n |-> keys[CHOOSE j \in 1..n : rank[j] = p]]

RECURSIVE DeleteAll(_, _)
DeleteAll(cache, keys) ==
    IF keys = <<>> THEN cache ELSE DeleteAll(Delete(cache, Head(keys)), Tail(keys))

\* Variant: the eviction drops the newest items instead of the oldest.
cleanupNewest(slot, t, maxItems) ==
    LET cache   == getCache(slot)
        keys    == KeysOf(cache)
        live    == SelectSeq(cache, LAMBDA it : ~(it.expiresAt < t))
        over    == Len(keys) > maxItems
        throws  == over /\ Len(keys) >= 2 /\ Len(live) < Len(cache)
        sorted  == IF Len(keys) >= 2 THEN SortByTimestamp(keys, cache) ELSE keys
        nRemove == IF Len(keys) - maxItems < Len(keys) THEN Len(keys) - maxItems ELSE Len(keys)
        kept    == IF over
                   THEN DeleteAll(live, SubSeq(sorted, Len(keys) - nRemove + 1, Len(keys)))
                   ELSE live
    IN  IF throws THEN [slot |-> slot, threw |-> TRUE]
        ELSE [slot |-> setCache(kept), threw |-> FALSE]

\* cleanup(): the result is the slot afterwards and whether a TypeError
\* escaped.  `keys` is taken before the expired items are deleted; the sort
\* comparator reads cache[a].timestamp of every key it compares, so it
\* throws when a key of `keys` was just deleted and at least two keys are
\* compared.  When it throws, the final setCache is not reached.
cleanup(slot, t, maxItems) ==
    LET cache   == getCache(slot)
        keys    == KeysOf(cache)
        live    == SelectSeq(cache, LAMBDA it : ~(it.expiresAt < t))
        over    == Len(keys) > maxItems
        throws  == over /\ Len(keys) >= 2 /\ Len(live) < Len(cache)
        sorted  == IF Len(keys) >= 2 THEN SortByTimestamp(keys, cache) ELSE keys
        nRemove == IF Len(keys) - maxItems < Len(keys) THEN Len(keys) - maxItems ELSE Len(keys)
        kept    == IF over THEN DeleteAll(live, SubSeq(sorted, 1, nRemove)) ELSE live
    IN  IF throws THEN [slot |-> slot, threw |-> TRUE]
        ELSE [slot |-> setCache(kept), threw |-> FALSE]

\* set(key, data, maxAge?)
set(slot, cfg, on, t, k, data, maxAge) ==
    IF ~on THEN [slot |-> slot, threw |-> FALSE]
    ELSE LET age   == IF maxAge = None \/ maxAge[1] = 0 THEN cfg.maxAge ELSE maxAge[1]
             cache == Assign(getCache(slot),
                             [key |-> k, data |-> data, timestamp |-> t, expiresAt |-> t + age])
         IN  cleanup(setCache(cache), t, cfg.maxItems)

\* get(key): the returned value and the slot afterwards.
get(slot, on, t, k) ==
    IF ~on THEN [value |-> None, slot |-> slot]
    ELSE LET cache == getCache(slot)
         IN  IF ~HasKey(cache, k) THEN [value |-> None, slot |-> slot]
             ELSE IF ItemOf(cache, k).expiresAt < t
                  THEN [value |-> None, slot |-> setCache(Delete(cache, k))]
                  ELSE [value |-> Some(ItemOf(cache, k).data), slot |-> slot]

\* has(key)
has(slot, on, t, k) ==
    LET r == get(slot, on, t, k) IN [value |-> r.value # None, slot |-> r.slot]

\* remove(key)
remove(slot, k) == setCache(Delete(getCache(slot), k))

\* clear()
clear(slot) == None

\* getKeys()
getKeys(slot) == KeysOf(getCache(slot))

\* getSize()
getSize(slot) == Len(KeysOf(getCache(slot)))

\* The calls under a failing localStorage.  "quota": every setItem of the
\* call throws (caught in setCache, the stored text stays as it was).
\* "denied": every access to the storage throws; getCache and setCache
\* catch it, clear() has no try block.
StorageFaults == {"quota", "denied"}

setUnder(f, slot, cfg, on, t, k, data, maxAge) ==
    IF ~on THEN [slot |-> slot, threw |-> FALSE]
    ELSE IF f = "quota"
    THEN [slot |-> slot, threw |-> cleanup(slot, t, cfg.maxItems).threw]
    ELSE [slot |-> slot, threw |-> cleanup(None, t, cfg.maxItems).threw]

getUnder(f, slot, on, t, k) ==
    IF f = "quota" THEN [value |-> get(slot, on, t, k).value, slot |-> slot]
    ELSE [value |-> get(None, on, t, k).value, slot |-> slot]

removeUnder(f, slot, k) == slot

clearUnder(f, slot) ==
    IF f = "quota" THEN [slot |-> clear(slot), threw |-> FALSE]
    ELSE [slot |-> slot, threw |-> TRUE]

getKeysUnder(f, slot) == IF f = "quota" THEN getKeys(slot) ELSE getKeys(None)

(***************************************************************************)
(* SpecCache: one instance, new OfflineCache('test_cache', {maxAge,        *)
(* maxItems}), called directly.                                            *)
(***************************************************************************)
TestPayloads == {[id |-> i, query |-> "-"] : i \in PayloadIds}
SetAges == {None, Some(1)}
\* The maxAge arguments of set, falsy and negative numbers included.
OverrideAges == SetAges \cup {Some(0), Some(-1)}

NoCall == [op |-> "none", key |-> "", pre |-> None, value |-> None,
           present |-> FALSE, threw |-> FALSE, keys |-> <<>>, size |-> 0,
           fault |-> "none", maxAge |-> None]

\* The item physically stored under k, if any.
Stored(slot, k) ==
    IF HasKey(getCache(slot), k) THEN Some(ItemOf(getCache(slot), k)) ELSE None

\* The state before the first operation: the cache has never persisted
\* anything, so localStorage has no item under its storage key.
EmptyStorage == [s \in StorageKeys |-> None]

TestConfigs == [maxAge : {2}, maxItems : 1..MaxTestItems]

\* searchCache and savedItemsCache as constructed in offlineCache.ts.
ExportedConf(s) ==
    IF s = SEARCH_CACHE THEN [maxAge |-> 30 * 60 * 1000, maxItems |-> 50]
    ELSE [maxAge |-> 24 * 60 * 60 * 1000, maxItems |-> 200]

\* No item of the cache has reached its expiry time at t.
NoneExpiring(slot, t) ==
    \A i \in 1..Len(getCache(slot)) : getCache(slot)[i].expiresAt > t

CallSet(k, d, a) ==
    LET slot == storage[TEST_CACHE]
        r    == set(slot, conf[TEST_CACHE], enabled, now, k, d, a)
        ok   == /\ logOk /\ enabled /\ ~r.threw
                /\ \A i \in 1..Len(insertLog) : insertLog[i] # k
                /\ NoneExpiring(slot, now)
                /\ (HasKey(getCache(r.slot), k) => ItemOf(getCache(r.slot), k).expiresAt > now)
                /\ (a = None \/ a[1] >= 0)
    IN  /\ storage' = [storage EXCEPT ![TEST_CACHE] = r.slot]
        /\ lastCall' = [NoCall EXCEPT !.op = "set", !.key = k, !.pre = Stored(slot, k),
                                      !.threw = r.threw, !.maxAge = a]
        /\ logOk' = ok
        /\ insertLog' = IF ok THEN Append(insertLog, k) ELSE <<>>
        /\ UNCHANGED <<now, enabled, conf>>
        /\ UNCHANGED <<apiVars, uiVars, clsVars, appVars>>

CallGet(k) ==
    LET slot == storage[TEST_CACHE]
        r    == get(slot, enabled, now, k)
    IN  /\ storage' = [storage EXCEPT ![TEST_CACHE] = r.slot]
        /\ lastCall' = [NoCall EXCEPT !.op = "get", !.key = k, !.pre = Stored(slot, k), !.value = r.value]
        /\ logOk' = (logOk /\ r.slot = slot)
        /\ insertLog' = IF logOk' THEN insertLog ELSE <<>>
        /\ UNCHANGED <<now, enabled, conf>>
        /\ UNCHANGED <<apiVars, uiVars, clsVars, appVars>>

CallHas(k) ==
    LET slot == storage[TEST_CACHE]
        r    == has(slot, enabled, now, k)
    IN  /\ storage' = [storage EXCEPT ![TEST_CACHE] = r.slot]
        /\ lastCall' = [NoCall EXCEPT !.op = "has", !.key = k, !.pre = Stored(slot, k), !.present = r.value,
                                      !.value = get(slot, enabled, now, k).value]
        /\ logOk' = (logOk /\ r.slot = slot)
        /\ insertLog' = IF logOk' THEN insertLog ELSE <<>>
        /\ UNCHANGED <<now, enabled, conf>>
        /\ UNCHANGED <<apiVars, uiVars, clsVars, appVars>>

CallRemove(k) ==
    /\ storage' = [storage EXCEPT ![TEST_CACHE] = remove(storage[TEST_CACHE], k)]
    /\ lastCall' = [NoCall EXCEPT !.op = "remove", !.key = k, !.pre = Stored(storage[TEST_CACHE], k)]
    /\ logOk' = FALSE
    /\ insertLog' = <<>>
    /\ UNCHANGED <<now, enabled, conf>>
    /\ UNCHANGED <<apiVars, uiVars, clsVars, appVars>>

CallClear ==
    /\ storage' = [storage EXCEPT ![TEST_CACHE] = clear(storage[TEST_CACHE])]
    /\ lastCall' = [NoCall EXCEPT !.op = "clear"]
    /\ logOk' = enabled
    /\ insertLog' = <<>>
    /\ UNCHANGED <<now, enabled, conf>>
    /\ UNCHANGED <<apiVars, uiVars, clsVars, appVars>>

CallGetKeys ==
    /\ lastCall' = [NoCall EXCEPT !.op = "getKeys", !.keys = getKeys(storage[TEST_CACHE])]
    /\ UNCHANGED <<now, enabled, storage, conf, insertLog, logOk>>
    /\ UNCHANGED <<apiVars, uiVars, clsVars, appVars>>

CallGetSize ==
    /\ lastCall' = [NoCall EXCEPT !.op = "getSize", !.size = getSize(storage[TEST_CACHE])]
    /\ UNCHANGED <<now, enabled, storage, conf, insertLog, logOk>>
    /\ UNCHANGED <<apiVars, uiVars, clsVars, appVars>>

\* The same calls while localStorage fails with f.
FaultySet(f, k, d, a) ==
    LET slot == storage[TEST_CACHE]
        r    == setUnder(f, slot, conf[TEST_CACHE], enabled, now, k, d, a)
    IN  /\ storage' = [storage EXCEPT ![TEST_CACHE] = r.slot]
        /\ lastCall' = [NoCall EXCEPT !.op = "set", !.key = k, !.pre = Stored(slot, k),
                                      !.threw = r.threw, !.fault = f]
        /\ logOk' = FALSE
        /\ insertLog' = <<>>
        /\ UNCHANGED <<now, enabled, conf>>
        /\ UNCHANGED <<apiVars, uiVars, clsVars, appVars>>

FaultyGet(f, k) ==
    LET slot == storage[TEST_CACHE]
        r    == getUnder(f, slot, enabled, now, k)
    IN  /\ storage' = [storage EXCEPT ![TEST_CACHE] = r.slot]
        /\ lastCall' = [NoCall EXCEPT !.op = "get", !.key = k, !.pre = Stored(slot, k),
                                      !.value = r.value, !.fault = f]
        /\ logOk' = FALSE
        /\ insertLog' = <<>>
        /\ UNCHANGED <<now, enabled, conf>>
        /\ UNCHANGED <<apiVars, uiVars, clsVars, appVars>>

FaultyHas(f, k) ==
    LET slot == storage[TEST_CACHE]
        r    == getUnder(f, slot, enabled, now, k)
    IN  /\ storage' = [storage EXCEPT ![TEST_CACHE] = r.slot]
        /\ lastCall' = [NoCall EXCEPT !.op = "has", !.key = k, !.pre = Stored(slot, k),
                                      !.value = r.value, !.present = (r.value # None),
                                      !.fault = f]
        /\ logOk' = FALSE
        /\ insertLog' = <<>>
        /\ UNCHANGED <<now, enabled, conf>>
        /\ UNCHANGED <<apiVars, uiVars, clsVars, appVars>>

FaultyRemove(f, k) ==
    /\ storage' = [storage EXCEPT ![TEST_CACHE] = removeUnder(f, storage[TEST_CACHE], k)]
    /\ lastCall' = [NoCall EXCEPT !.op = "remove", !.key = k,
                                  !.pre = Stored(storage[TEST_CACHE], k), !.fault = f]
    /\ logOk' = FALSE
    /\ insertLog' = <<>>
    /\ UNCHANGED <<now, enabled, conf>>
    /\ UNCHANGED <<apiVars, uiVars, clsVars, appVars>>

FaultyClear(f) ==
    LET r == clearUnder(f, storage[TEST_CACHE])
    IN  /\ storage' = [storage EXCEPT ![TEST_CACHE] = r.slot]
        /\ lastCall' = [NoCall EXCEPT !.op = "clear", !.threw = r.threw, !.fault = f]
        /\ logOk' = FALSE
        /\ insertLog' = <<>>
        /\ UNCHANGED <<now, enabled, conf>>
        /\ UNCHANGED <<apiVars, uiVars, clsVars, appVars>>

FaultyGetKeys(f) ==
    /\ lastCall' = [NoCall EXCEPT !.op = "getKeys", !.fault = f,
                                  !.keys = getKeysUnder(f, storage[TEST_CACHE])]
    /\ UNCHANGED <<now, enabled, storage, conf, insertLog, logOk>>
    /\ UNCHANGED <<apiVars, uiVars, clsVars, appVars>>

FaultyGetSize(f) ==
    /\ lastCall' = [NoCall EXCEPT !.op = "getSize", !.fault = f,
                                  !.size = Len(getKeysUnder(f, storage[TEST_CACHE]))]
    /\ UNCHANGED <<now, enabled, storage, conf, insertLog, logOk>>
    /\ UNCHANGED <<apiVars, uiVars, clsVars, appVars>>

\* The stored text is damaged outside the cache (another writer of the same
\* localStorage key, a truncated write): it no longer parses.
Garble ==
    /\ storage[TEST_CACHE] # None
    /\ storage[TEST_CACHE] # Some(InvalidJson)
    /\ storage' = [storage EXCEPT ![TEST_CACHE] = Some(InvalidJson)]
    /\ lastCall' = NoCall
    /\ logOk' = FALSE
    /\ insertLog' = <<>>
    /\ UNCHANGED <<now, enabled, conf>>
    /\ UNCHANGED <<apiVars, uiVars, clsVars, appVars>>

\* Time passes after a call; lastCall describes the call just made.
TickCache ==
    /\ now < MaxNowCache
    /\ now' = now + 1
    /\ lastCall' = NoCall
    /\ UNCHANGED <<enabled, storage, conf, insertLog, logOk>>
    /\ UNCHANGED <<apiVars, uiVars, clsVars, appVars>>

(***************************************************************************)
(* Error classification (api.ts, categorizeError).                         *)
(*                                                                         *)
(* An error object as categorizeError reads it: .code, .message and        *)
(* .response (None when the property is undefined).  A response carries    *)
(* the status, the retry-after header and the body's message.              *)
(***************************************************************************)
\* JavaScript numbers that parseInt can produce.
Num(n) == [nan |-> FALSE, n |-> n]
NaN == [nan |-> TRUE, n |-> 0]

\* error.message.includes('timeout'), for the message texts of the model.
MessagesWithTimeout == {"timeout of 15000ms exceeded", "upstream timeout"}
IncludesTimeout(message) == message \in MessagesWithTimeout

\* parseInt(text) for the retry-after header values of the model.
parseInt(text) ==
    CASE text = "60" -> Num(60)
      [] text = "5"  -> Num(5)
      [] text = "0"  -> Num(0)
      [] OTHER       -> NaN

\* a || b on strings: an absent or empty string is falsy.
OrString(a, b) == IF a = None \/ a[1] = "" THEN b ELSE a[1]

\* a || b on numbers: undefined, 0 and NaN are falsy.
OrNumber(a, b) == IF a = None \/ a[1].nan \/ a[1].n = 0 THEN b ELSE a[1].n

ApiErr(code, message, retryable, retryAfter) ==
    [code |-> code, message |-> message, retryable |-> retryable, retryAfter |-> retryAfter]

categorizeError(error) ==
    IF error.code = "ECONNABORTED" \/ IncludesTimeout(error.message)
    THEN ApiErr("TIMEOUT_ERROR",
                "Request timed out. Please check your connection and try again.", TRUE, None)
    ELSE IF error.response = None
    THEN ApiErr("NETWORK_ERROR",
                "Unable to connect to server. Please check your internet connection.", TRUE, None)
    ELSE LET status == error.response[1].status
             body   == error.response[1].message
             header == error.response[1].retryAfter
         IN  CASE status = 400 ->
                    ApiErr("VALIDATION_ERROR",
                           OrString(body, "Invalid request. Please check your input and try again."),
                           FALSE, None)
               [] status = 401 ->
                    ApiErr("AUTH_ERROR",
                           "Authentication required. Please log in and try again.", FALSE, None)
               [] status = 429 ->
                    ApiErr("RATE_LIMIT_ERROR",
                           "Too many requests. Please wait a moment and try again.", TRUE,
                           Some(parseInt(OrString(header, "60"))))
               [] status \in {500, 502, 503, 504} ->
                    ApiErr("SERVER_ERROR",
                           "Server error occurred. Please try again later.", TRUE, None)
               [] OTHER ->
                    ApiErr("SERVER_ERROR",
                           OrString(body, "Unexpected error. Please try again."),
                           status >= 500, None)

\* What the transport can reject with before any interceptor runs.
Statuses == {400, 401, 404, 429, 500, 502, 503, 504}
BodyMessages == {None, Some("upstream timeout")}
RetryAfterHeaders == {None, Some("5"), Some("0"), Some("Wed, 21 Oct 2026 07:28:00 GMT")}

NetworkFailure == [code |-> "ERR_NETWORK", message |-> "Network Error", response |-> None]
TimeoutFailure == [code |-> "ECONNABORTED", message |-> "timeout of 15000ms exceeded",
                   response |-> None]
HttpFailure(status, body, header) ==
    [code |-> IF status >= 500 THEN "ERR_BAD_RESPONSE" ELSE "ERR_BAD_REQUEST",
     message |-> "Request failed with status code",
     response |-> Some([status |-> status, message |-> body, retryAfter |-> header])]

RawFailures ==
    {NetworkFailure, TimeoutFailure}
    \cup {HttpFailure(s, None, None) : s \in Statuses \ {429}}
    \cup {HttpFailure(s, b, None) : s \in {400, 404}, b \in BodyMessages}
    \cup {HttpFailure(429, None, h) : h \in RetryAfterHeaders}

StatusOf(raw) == IF raw.response = None THEN 0 ELSE raw.response[1].status

\* The response interceptor's rejection handler (api.ts 173-180): the
\* promise of the transport call rejects with the ApiError it returns.
interceptor(raw) == categorizeError(raw)

\* `error as AxiosError` in retryRequest's catch: the caught object is the
\* interceptor's ApiError, which has .code and .message and no .response.
AsAxiosError(apiError) ==
    [code |-> apiError.code, message |-> apiError.message, response |-> None]

\* The error objects categorizeError is called with on its own: what the
\* transport rejects with (no response: no connection, an elapsed deadline,
\* an aborted request; or a response of any status), and the rejection the
\* tests of apiService mock (code ECONNABORTED with message 'Network Error').
ClassifierStatuses == {400, 401, 403, 404, 429, 500, 502, 503, 504, 507}
ClassifierBodies == BodyMessages \cup {Some("")}
ClassifierHeaders == RetryAfterHeaders \cup {Some(""), Some("60")}

AbortedFailure == [code |-> "ECONNABORTED", message |-> "Request aborted", response |-> None]
MockedNetworkFailure == [code |-> "ECONNABORTED", message |-> "Network Error",
                         response |-> None]

ClassifierInputs ==
    {NetworkFailure, TimeoutFailure, AbortedFailure, MockedNetworkFailure}
    \cup {HttpFailure(st, b, h) :
            st \in ClassifierStatuses, b \in ClassifierBodies, h \in ClassifierHeaders}

Classify(error) ==
    /\ thrown = None
    /\ thrown' = Some(error)
    /\ classified' = Some(categorizeError(error))
    /\ UNCHANGED <<cacheVars, apiVars, uiVars, appVars>>

\* The caller has taken the ApiError.
ClassifyReturn ==
    /\ thrown # None
    /\ thrown' = None
    /\ classified' = None
    /\ UNCHANGED <<cacheVars, apiVars, uiVars, appVars>>

(***************************************************************************)
(* retryRequest (api.ts 131-170).                                          *)
(***************************************************************************)
DEFAULT_RETRY_CONFIG ==
    [maxRetries |-> 3, retryDelay |-> 1000, backoffMultiplier |-> 2, maxRetryDelay |-> 10000]

\* Arguments for retryRequest's retryConfig parameter: the default, and
\* policies with fewer retries whose schedule reaches the cap.
RetryConfigs ==
    {DEFAULT_RETRY_CONFIG}
    \cup {[maxRetries |-> n, retryDelay |-> 4000, backoffMultiplier |-> 3,
           maxRetryDelay |-> 10000] : n \in 0..MaxPolicyRetries}

RECURSIVE Pow(_, _)
Pow(b, e) == IF e = 0 THEN 1 ELSE b * Pow(b, e - 1)

Min(a, b) == IF a < b THEN a ELSE b

\* Variant: the loop allows one retry more.
givesUpLate(apiError, i, cfg) ==
    ~apiError.retryable \/ i = cfg.maxRetries + 1

\* Variant: the loop gives up one attempt early.
givesUpEarly(apiError, i, cfg) ==
    ~apiError.retryable \/ i >= cfg.maxRetries - 1

\* if (!apiError.retryable || attempt === retryConfig.maxRetries) throw apiError
givesUp(apiError, i, cfg) ==
    ~apiError.retryable \/ i = cfg.maxRetries

\* Variant: the schedule without its cap.
backoffUncapped(cfg, i) ==
    cfg.retryDelay * Pow(cfg.backoffMultiplier, i)

\* Math.min(retryDelay * Math.pow(backoffMultiplier, attempt), maxRetryDelay)
backoffDelay(cfg, i) ==
    Min(cfg.retryDelay * Pow(cfg.backoffMultiplier, i),
        cfg.maxRetryDelay)

\* The argument of setTimeout before the next attempt.
retryWait(apiError, cfg, i) ==
    IF apiError.code = "RATE_LIMIT_ERROR"
    THEN OrNumber(apiError.retryAfter, 60) * 1000
    ELSE backoffDelay(cfg, i)

(***************************************************************************)
(* apiService (api.ts 182-335).                                            *)
(***************************************************************************)
CacheableOps == {"searchItems", "searchItemsGet", "getSavedItems"}
PlainOps == {"saveItem", "getSavedItem", "updateSavedItem", "deleteSavedItem", "healthCheck"}
Ops == CacheableOps \cup PlainOps

DefaultLimit == 20

\* Variant: updateSavedItem wired to the saved-items cache like a read.
CacheOfWithUpdate(op) ==
    CASE op \in {"searchItems", "searchItemsGet"} -> Some(SEARCH_CACHE)
      [] op \in {"getSavedItems", "updateSavedItem"} -> Some(SAVED_CACHE)
      [] OTHER -> None

\* The cache instance an operation uses, None when it uses none.
CacheOf(op) ==
    CASE op \in {"searchItems", "searchItemsGet"} -> Some(SEARCH_CACHE)
      [] op = "getSavedItems" -> Some(SAVED_CACHE)
      [] OTHER -> None

\* const cacheKey = ...
cacheKey(op, query, limit) ==
    CASE op = "searchItems"    -> "search_" \o query \o "_" \o ToString(limit)
      [] op = "searchItemsGet" -> "search_get_" \o query \o "_" \o ToString(limit)
      [] OTHER                 -> "saved_items_all"

\* The catch block of a cacheable read serves the cache for these codes.
servesCache(apiError) == apiError.code \in {"NETWORK_ERROR", "TIMEOUT_ERROR"}

\* { ...cachedData, query, status: 'success', _cached: true }
CachedResult(op, cachedData, query) ==
    [id |-> cachedData.id,
     query |-> IF op = "getSavedItems" THEN cachedData.query ELSE query,
     cached |-> TRUE]

\* response.data of a fresh response: the body as received.
FreshResult(data) == [id |-> data.id, query |-> data.query, cached |-> FALSE]

NoResult == [kind |-> "none", data |-> None, error |-> None]
NoRequest == [op |-> "none", query |-> "-", limit |-> DefaultLimit]
NoProbe == [failed |-> FALSE, at |-> 0, pre |-> None]

Key == cacheKey(req.op, req.query, req.limit)

\* An operation is invoked: retryRequest starts with attempt = 0.
Start(op, query) ==
    /\ pc = "idle"
    /\ invocations < MaxInvocations
    /\ pc' = "call"
    /\ req' = [op |-> op, query |-> query, limit |-> DefaultLimit]
    /\ attempt' = 0
    /\ calls' = 0
    /\ waits' = <<>>
    /\ delay' = 0
    /\ lastStatus' = 0
    /\ intercepted' = None
    /\ lastError' = None
    /\ allServer' = TRUE
    /\ result' = NoResult
    /\ probe' = NoProbe
    /\ cacheReads' = 0
    /\ cacheWrites' = 0
    /\ invocations' = invocations + 1
    /\ UNCHANGED <<retryConfig, ticks, cacheVars, uiVars, clsVars, appVars>>

\* The TypeError cleanup()'s sort comparator throws, as the catch block of
\* retryRequest reads it: no .code, no .response.
SortTypeError ==
    [code |-> "", message |-> "Cannot read properties of undefined (reading 'timestamp')",
     response |-> None]

\* retryRequest's catch block from its test on, with the classified error
\* and the localStorage `st` the attempt left: either it throws apiError
\* (the operation's catch block then runs) or it arms the timer.
Caught(apiError, st) ==
    IF givesUp(apiError, attempt, retryConfig)
    THEN /\ pc' = "done"
         /\ delay' = 0
         /\ IF CacheOf(req.op) # None /\ servesCache(apiError)
            THEN LET c == CacheOf(req.op)[1]
                     r == get(st[c], enabled, now, Key)
                 IN  /\ probe' = [failed |-> TRUE, at |-> now, pre |-> Stored(st[c], Key)]
                     /\ cacheReads' = cacheReads + 1
                     /\ storage' = [st EXCEPT ![c] = r.slot]
                     /\ result' = IF r.value # None
                                  THEN [kind |-> "data",
                                        data |-> Some(CachedResult(req.op, r.value[1],
                                                                   req.query)),
                                        error |-> None]
                                  ELSE [kind |-> "error", data |-> None,
                                        error |-> Some(apiError)]
            ELSE /\ probe' = [failed |-> TRUE, at |-> now,
                              pre |-> IF CacheOf(req.op) = None THEN None
                                      ELSE Stored(st[CacheOf(req.op)[1]], Key)]
                 /\ result' = [kind |-> "error", data |-> None, error |-> Some(apiError)]
                 /\ storage' = st
                 /\ UNCHANGED cacheReads
    ELSE /\ pc' = "sleep"
         /\ delay' = retryWait(apiError, retryConfig, attempt)
         /\ storage' = st
         /\ UNCHANGED <<result, probe, cacheReads>>

\* requestFn's transport call resolves with body `data`.  A cacheable read
\* stores it with set() and returns it; when set() throws, requestFn
\* rejects with the TypeError and retryRequest's catch block handles it like
\* any other rejection.
AttemptSuccess(data) ==
    /\ pc = "call"
    /\ data.query = req.query
    /\ calls' = calls + 1
    /\ lastStatus' = 200
    /\ IF CacheOf(req.op) = None
       THEN /\ pc' = "done"
            /\ result' = [kind |-> "data", data |-> Some(FreshResult(data)), error |-> None]
            /\ UNCHANGED <<storage, cacheWrites, delay, intercepted, lastError,
                           allServer, probe, cacheReads>>
       ELSE LET c == CacheOf(req.op)[1]
                w == set(storage[c], conf[c], enabled, now, Key, data, None)
            IN  /\ cacheWrites' = cacheWrites + 1
                /\ IF w.threw
                   THEN /\ intercepted' = None
                        /\ lastError' = Some(categorizeError(SortTypeError))
                        /\ allServer' = FALSE
                        /\ Caught(categorizeError(SortTypeError),
                                  [storage EXCEPT ![c] = w.slot])
                   ELSE /\ storage' = [storage EXCEPT ![c] = w.slot]
                        /\ pc' = "done"
                        /\ result' = [kind |-> "data", data |-> Some(FreshResult(data)),
                                      error |-> None]
                        /\ UNCHANGED <<delay, intercepted, lastError, allServer,
                                       probe, cacheReads>>
    /\ UNCHANGED <<now, enabled, conf, lastCall, insertLog, logOk,
                   req, retryConfig, attempt, waits, invocations, ticks, uiVars, clsVars, appVars>>

\* requestFn rejects: the transport fails with `raw`, the interceptor
\* rejects with its ApiError, retryRequest classifies what it caught and
\* either gives up (the operation's catch block then runs) or arms the timer.
AttemptFail(raw) ==
    LET icpt     == interceptor(raw)
        apiError == categorizeError(AsAxiosError(icpt))
    IN  /\ pc = "call"
        /\ calls' = calls + 1
        /\ lastStatus' = StatusOf(raw)
        /\ intercepted' = Some(icpt)
        /\ lastError' = Some(apiError)
        /\ allServer' = (allServer /\ StatusOf(raw) \in {500, 502, 503, 504})
        /\ Caught(apiError, storage)
        /\ UNCHANGED <<now, enabled, conf, lastCall, insertLog, logOk,
                       req, retryConfig, attempt, waits, cacheWrites, invocations, ticks,
                       uiVars, clsVars, appVars>>

\* The timer fires: the loop continues with the next attempt.
Sleep ==
    /\ pc = "sleep"
    /\ now' = now + delay
    /\ waits' = Append(waits, delay)
    /\ attempt' = attempt + 1
    /\ delay' = 0
    /\ pc' = "call"
    /\ UNCHANGED <<enabled, storage, conf, lastCall, insertLog, logOk,
                   req, retryConfig, calls, lastStatus, intercepted, lastError, allServer,
                   result, probe, cacheReads, cacheWrites, invocations, ticks, uiVars, clsVars, appVars>>

\* The caller has taken the result; the invocation's state is discarded.
Return ==
    /\ pc = "done"
    /\ pc' = "idle"
    /\ req' = NoRequest
    /\ attempt' = 0
    /\ calls' = 0
    /\ waits' = <<>>
    /\ lastStatus' = 0
    /\ intercepted' = None
    /\ lastError' = None
    /\ allServer' = TRUE
    /\ result' = NoResult
    /\ probe' = NoProbe
    /\ cacheReads' = 0
    /\ cacheWrites' = 0
    /\ UNCHANGED <<delay, retryConfig, invocations, ticks, cacheVars, uiVars, clsVars, appVars>>

\* The total of the waits of an invocation that exhausts its retries.
RECURSIVE TotalBackoff(_, _)
TotalBackoff(cfg, n) ==
    IF n = 0 THEN 0 ELSE TotalBackoff(cfg, n - 1) + backoffDelay(cfg, n - 1)

\* The instants from which an invocation reaches its end exactly when an
\* item of the exported caches expires, or a millisecond later: with no
\* wait, and after the waits of all its retries.
ExpiryInstants ==
    UNION {{getCache(storage[c])[i].expiresAt + d - w :
                i \in 1..Len(getCache(storage[c])),
                d \in {0, 1},
                w \in {0, TotalBackoff(retryConfig, retryConfig.maxRetries)}}
           : c \in {SEARCH_CACHE, SAVED_CACHE}}

\* Time passes between two invocations: by a millisecond, or up to an
\* expiry instant.
TickApi ==
    /\ pc = "idle"
    /\ ticks < MaxTicksApi
    /\ \E t \in ExpiryInstants \cup {now + 1} :
          /\ t > now
          /\ now' = t
    /\ ticks' = ticks + 1
    /\ UNCHANGED <<enabled, storage, conf, lastCall, insertLog, logOk,
                   pc, req, retryConfig, attempt, calls, waits, delay, lastStatus, intercepted,
                   lastError, allServer, result, probe, cacheReads, cacheWrites, invocations,
                   uiVars, clsVars, appVars>>

(***************************************************************************)
(* Overlapping invocations of the cacheable reads.  Each invocation is an  *)
(* async function: it awaits its response, and on a response runs          *)
(* cache.set(cacheKey, response.data) and returns in one synchronous step. *)
(***************************************************************************)
Flights == 1..MaxFlights

NoFlight == [phase |-> "none", op |-> "none", query |-> "-", data |-> None]

FlightIdle ==
    /\ flights = [i \in Flights |-> NoFlight]
    /\ arrivals = <<>>

FlightKey(i) == cacheKey(flights[i].op, flights[i].query, DefaultLimit)

\* A cacheable read is invoked while earlier invocations are still awaiting
\* their responses; invocations are numbered in the order they are issued.
Issue(i, op, query) ==
    /\ flights[i].phase = "none"
    /\ \A j \in Flights : j < i => flights[j].phase # "none"
    /\ flights' = [flights EXCEPT ![i] = [phase |-> "pending", op |-> op,
                                          query |-> query, data |-> None]]
    /\ UNCHANGED <<arrivals, cacheVars, apiVars, uiVars, clsVars, netVars, authVars>>

\* The response of invocation i arrives with body `data`: the invocation
\* stores it with set() and returns it.
Arrive(i, data) ==
    LET c == CacheOf(flights[i].op)[1]
        w == set(storage[c], conf[c], enabled, now, FlightKey(i), data, None)
    IN  /\ flights[i].phase = "pending"
        /\ data.query = flights[i].query
        /\ storage' = [storage EXCEPT ![c] = w.slot]
        /\ flights' = [flights EXCEPT ![i].phase = IF w.threw THEN "threw" ELSE "arrived",
                                      ![i].data = Some(data)]
        /\ arrivals' = Append(arrivals, i)
        /\ UNCHANGED <<now, enabled, conf, lastCall, insertLog, logOk,
                       apiVars, uiVars, clsVars, netVars, authVars>>

\* Time passes while responses are awaited.
TickFlight ==
    /\ now < MaxNowCache
    /\ now' = now + 1
    /\ UNCHANGED <<enabled, storage, conf, lastCall, insertLog, logOk,
                   apiVars, uiVars, clsVars, flightVars, netVars, authVars>>

(***************************************************************************)
(* useOfflineDetection (hooks/useOfflineDetection.ts 1-85).                *)
(***************************************************************************)
\* navigator.connection: None when the browser has none, else its
\* effectiveType and type ("" when undefined).
Connections ==
    {None, Some([effectiveType |-> "4g", type |-> "cellular"]),
     Some([effectiveType |-> "", type |-> "wifi"]),
     Some([effectiveType |-> "", type |-> ""])}

\* useState's initial value, for navigator.onLine = onLine at time t.
InitialOfflineState(onLine, t) ==
    [isOffline |-> ~onLine,
     lastOnlineTime |-> IF onLine THEN Some(t) ELSE None,
     lastOfflineTime |-> IF onLine THEN None ELSE Some(t),
     connectionType |-> "unknown"]

\* updateConnectionType's functional update, when there is a connection.
updateConnectionType(st, connection) ==
    IF connection = None THEN st
    ELSE [st EXCEPT !.connectionType =
              IF connection[1].effectiveType \in {"4g", "3g"} THEN "cellular"
              ELSE IF connection[1].type # "" THEN connection[1].type ELSE "unknown"]

\* handleOnline: its functional update, then updateConnectionType().
handleOnline(st, t, connection) ==
    updateConnectionType([st EXCEPT !.isOffline = FALSE, !.lastOnlineTime = Some(t)],
                         connection)

\* Variant: going offline forgets when the browser was last online.
handleOfflineForgets(st, t) ==
    [st EXCEPT !.isOffline = TRUE, !.lastOnlineTime = None, !.lastOfflineTime = Some(t)]

\* handleOffline's functional update.
handleOffline(st, t) ==
    [st EXCEPT !.isOffline = TRUE, !.lastOfflineTime = Some(t)]

\* No component is mounted; the browser is online.
NoEvents == [kind |-> "none", pre |-> InitialOfflineState(TRUE, 0),
             last |-> "none", onlineAt |-> None, offlineAt |-> None]

NetIdle ==
    /\ offlineState = InitialOfflineState(TRUE, 0)
    /\ nav = [connection |-> None, mounted |-> FALSE, events |-> NoEvents]

\* The effect runs after the first render: the connection type is read and
\* the listeners are added.
Mount ==
    /\ ~nav.mounted
    /\ offlineState' = updateConnectionType(offlineState, nav.connection)
    /\ nav' = [nav EXCEPT !.mounted = TRUE]
    /\ UNCHANGED <<cacheVars, apiVars, uiVars, clsVars, flightVars, authVars>>

\* window dispatches 'online'.
Online ==
    /\ nav.mounted
    /\ offlineState' = handleOnline(offlineState, now, nav.connection)
    /\ nav' = [nav EXCEPT !.events = [kind |-> "online", pre |-> offlineState,
                                      last |-> "online", onlineAt |-> Some(now),
                                      offlineAt |-> nav.events.offlineAt]]
    /\ UNCHANGED <<cacheVars, apiVars, uiVars, clsVars, flightVars, authVars>>

\* window dispatches 'offline'.
Offline ==
    /\ nav.mounted
    /\ offlineState' = handleOffline(offlineState, now)
    /\ nav' = [nav EXCEPT !.events = [kind |-> "offline", pre |-> offlineState,
                                      last |-> "offline", onlineAt |-> nav.events.onlineAt,
                                      offlineAt |-> Some(now)]]
    /\ UNCHANGED <<cacheVars, apiVars, uiVars, clsVars, flightVars, authVars>>

\* The connection changes and dispatches 'change': handleConnectionChange.
ConnectionChange(connection) ==
    /\ nav.mounted
    /\ nav.connection # None
    /\ connection # None
    /\ connection # nav.connection
    /\ offlineState' = updateConnectionType(offlineState, connection)
    /\ nav' = [nav EXCEPT !.connection = connection, !.events.kind = "none"]
    /\ UNCHANGED <<cacheVars, apiVars, uiVars, clsVars, flightVars, authVars>>

\* Time passes between events.
TickNet ==
    /\ now < MaxNowCache
    /\ now' = now + 1
    /\ nav' = [nav EXCEPT !.events.kind = "none"]
    /\ UNCHANGED <<enabled, storage, conf, lastCall, insertLog, logOk, offlineState,
                   apiVars, uiVars, clsVars, flightVars, authVars>>

(***************************************************************************)
(* AuthProvider (contexts/AuthContext.tsx).  The backend answers a request *)
(* for the user whose token the request interceptor read from localStorage.*)
(***************************************************************************)
Users == {"A", "B"}

TokenOf(u) == "token_" \o u
UserOfToken(t) == CHOOSE u \in Users : TokenOf(u) = t

\* A fliplens_user item that JSON.parse rejects.
Unparseable == "{"

\* JSON.parse(storedUser): the user record, None when it throws.
ParseUser(text) == IF text \in Users THEN Some(text) ELSE None

\* useState's initial values.
InitialAuth == [user |-> None, token |-> None, isLoading |-> TRUE]

NoLocal == [token |-> None, user |-> None]

NoAuthCalls == [init |-> "none", stored |-> NoLocal, accepts |-> TRUE,
                login |-> FALSE, refresh |-> FALSE]

AuthIdle ==
    /\ auth = InitialAuth
    /\ local = NoLocal
    /\ authCalls = NoAuthCalls

\* !!user && !!token
isAuthenticated == auth.user # None /\ auth.token # None

\* logout(): the state and localStorage it leaves.
logout(a) == [a EXCEPT !.user = None, !.token = None]

\* What the saved-items endpoint answers for user u.
ItemsOf(u) == [id |-> u, query |-> "-"]

\* What happens after initialization leaves the `init` phase "finished".
Past(c) == IF c.init = "finished" THEN [c EXCEPT !.init = "past"] ELSE c

\* The effect of the first render runs initializeAuth up to its await.
\* refreshUser is the function of that render: the token it tests is the
\* one the render closed over, useState's initial value.
InitializeAuth ==
    /\ authCalls.init = "none"
    /\ IF local.token # None /\ local.user # None
       THEN IF ParseUser(local.user[1]) = None
            THEN \* JSON.parse throws: logout(), finally setIsLoading(false)
                 /\ auth' = [logout(auth) EXCEPT !.isLoading = FALSE]
                 /\ local' = NoLocal
                 /\ authCalls' = [authCalls EXCEPT !.init = "finished", !.stored = local]
            ELSE IF InitialAuth.token = None
                 THEN \* refreshUser throws 'No token available': its catch
                      \* block calls logout() and rethrows
                      /\ auth' = logout([auth EXCEPT !.token = local.token,
                                                     !.user = ParseUser(local.user[1])])
                      /\ local' = NoLocal
                      /\ authCalls' = [authCalls EXCEPT !.init = "rejected", !.stored = local]
                 ELSE \* refreshUser awaits apiService.getCurrentUser()
                      /\ auth' = [auth EXCEPT !.token = local.token,
                                              !.user = ParseUser(local.user[1])]
                      /\ authCalls' = [authCalls EXCEPT !.init = "refreshing", !.stored = local,
                                                        !.refresh = TRUE]
                      /\ UNCHANGED local
       ELSE /\ auth' = [auth EXCEPT !.isLoading = FALSE]
            /\ authCalls' = [authCalls EXCEPT !.init = "finished", !.stored = local]
            /\ UNCHANGED local
    /\ UNCHANGED <<cacheVars, apiVars, uiVars, clsVars, flightVars, netVars>>

\* await refreshUser() continues in initializeAuth: the inner catch block
\* calls logout() when it rejected; finally setIsLoading(false).
InitSettles ==
    /\ authCalls.init \in {"rejected", "resolved"}
    /\ auth' = IF authCalls.init = "rejected"
               THEN [logout(auth) EXCEPT !.isLoading = FALSE]
               ELSE [auth EXCEPT !.isLoading = FALSE]
    /\ local' = IF authCalls.init = "rejected" THEN NoLocal ELSE local
    /\ authCalls' = [authCalls EXCEPT !.init = "finished"]
    /\ UNCHANGED <<cacheVars, apiVars, uiVars, clsVars, flightVars, netVars>>

\* login(email, password) up to its await.
LoginStart ==
    /\ authCalls.init \in {"finished", "past"}
    /\ ~authCalls.login
    /\ auth' = [auth EXCEPT !.isLoading = TRUE]
    /\ authCalls' = [Past(authCalls) EXCEPT !.login = TRUE]
    /\ UNCHANGED <<local, cacheVars, apiVars, uiVars, clsVars, flightVars, netVars>>

\* apiService.login answers with status 'success' for user u.
LoginSucceeds(u) ==
    /\ authCalls.login
    /\ auth' = [user |-> Some(u), token |-> Some(TokenOf(u)), isLoading |-> FALSE]
    /\ local' = [token |-> Some(TokenOf(u)), user |-> Some(u)]
    /\ authCalls' = [authCalls EXCEPT !.login = FALSE]
    /\ UNCHANGED <<cacheVars, apiVars, uiVars, clsVars, flightVars, netVars>>

\* apiService.login answers otherwise, or rejects.
LoginFails ==
    /\ authCalls.login
    /\ auth' = [auth EXCEPT !.isLoading = FALSE]
    /\ authCalls' = [authCalls EXCEPT !.login = FALSE]
    /\ UNCHANGED <<local, cacheVars, apiVars, uiVars, clsVars, flightVars, netVars>>

\* logout()
Logout ==
    /\ authCalls.init \in {"finished", "past"}
    /\ isAuthenticated
    /\ auth' = logout(auth)
    /\ local' = NoLocal
    /\ authCalls' = Past(authCalls)
    /\ UNCHANGED <<cacheVars, apiVars, uiVars, clsVars, flightVars, netVars>>

\* A component calls refreshUser() of the current render.
CallRefreshUser ==
    /\ authCalls.init \in {"finished", "past"}
    /\ ~authCalls.refresh
    /\ IF auth.token = None
       THEN /\ auth' = logout(auth)
            /\ local' = NoLocal
            /\ authCalls' = Past(authCalls)
       ELSE /\ authCalls' = [Past(authCalls) EXCEPT !.refresh = TRUE]
            /\ UNCHANGED <<auth, local>>
    /\ UNCHANGED <<cacheVars, apiVars, uiVars, clsVars, flightVars, netVars>>

\* getCurrentUser of a refreshUser is answered: with status 'success' and
\* the user of the token, or not.  The refreshUser of initializeAuth then
\* resolves or rejects.
RefreshAnswered(ok) ==
    /\ authCalls.refresh
    /\ authCalls.init = "refreshing" => ok = authCalls.accepts
    /\ IF ok /\ local.token # None
       THEN /\ auth' = [auth EXCEPT !.user = Some(UserOfToken(local.token[1]))]
            /\ local' = [local EXCEPT !.user = Some(UserOfToken(local.token[1]))]
       ELSE /\ auth' = logout(auth)
            /\ local' = NoLocal
    /\ authCalls' = [authCalls EXCEPT
                        !.refresh = FALSE,
                        !.init = IF authCalls.init # "refreshing" THEN authCalls.init
                                 ELSE IF ok /\ local.token # None THEN "resolved"
                                 ELSE "rejected"]
    /\ UNCHANGED <<cacheVars, apiVars, uiVars, clsVars, flightVars, netVars>>

\* GET /saved-items is answered for the user of the token in localStorage.
SavedItemsAnswered ==
    /\ req.op = "getSavedItems"
    /\ local.token # None
    /\ AttemptSuccess(ItemsOf(UserOfToken(local.token[1])))

(***************************************************************************)
(* useErrorHandler (hooks/useOfflineDetection.ts 86-171): the state that   *)
(* drives the retry/dismiss affordances of one component.                  *)
(***************************************************************************)
MaxInflight == 2
\* Largest retryCount from which a call through an earlier render is explored.
MaxRetryCount == 4

IdleErrorState ==
    [hasError |-> FALSE, error |-> None, retryCount |-> 0, lastRetryTime |-> None,
     isRetrying |-> FALSE]

\* The errors a component hands to setError and a retryFn rejects with:
\* classified errors (retryable and not) and the error SearchScreen builds
\* for a response whose status is not 'success'.
SearchError ==
    ApiErr("SEARCH_ERROR", "Failed to search items. Please try again.", TRUE, None)

UiErrors ==
    {categorizeError(NetworkFailure), categorizeError(HttpFailure(400, None, None)),
     categorizeError(HttpFailure(401, None, None)), SearchError}

NoRetry == [called |-> FALSE, pre |-> IdleErrorState, invoked |-> FALSE]
NoThunk == [phase |-> "none", error |-> None, count |-> 0]

\* Variant: the budget test off by one.
retryPermittedLoose(st) ==
    ~(st.error = None \/ ~st.error[1].retryable \/ st.retryCount > 3)

\* The negation of retry's early-return test:
\* !errorState.error?.retryable || errorState.retryCount >= 3
retryPermitted(st) ==
    ~(st.error = None \/ ~st.error[1].retryable \/ st.retryCount >= 3)

\* setError(error)
setError(e) ==
    [hasError |-> TRUE, error |-> Some(e), retryCount |-> 0, lastRetryTime |-> None,
     isRetrying |-> FALSE]

\* clearError()
clearError == IdleErrorState

\* The continuation of a retryFn that has handled its failure runs before
\* any other callback of the component.
NoneSettling == thunk.phase # "caught"

\* The component's setError is called (an operation of the component failed).
CallSetError(e) ==
    /\ NoneSettling
    /\ errorState' = setError(e)
    /\ lastRetry' = NoRetry
    /\ thunk' = NoThunk
    /\ UNCHANGED <<rendered, inflight, cacheVars, apiVars, clsVars, appVars>>

\* The user dismisses the error.
CallClearError ==
    /\ NoneSettling
    /\ errorState' = clearError
    /\ lastRetry' = NoRetry
    /\ thunk' = NoThunk
    /\ UNCHANGED <<rendered, inflight, cacheVars, apiVars, clsVars, appVars>>

\* React renders the component: `retry` is re-created over the new state.
Render ==
    /\ NoneSettling
    /\ rendered # errorState
    /\ rendered' = errorState
    /\ UNCHANGED <<errorState, inflight, lastRetry, thunk, cacheVars, apiVars, clsVars, appVars>>

\* The user asks for a retry.  The handler called is the one of a render of
\* the current state; its test reads the state it closed over, its update
\* is a functional one on the current state, and retryFn is then called.
CallRetry ==
    /\ NoneSettling
    /\ rendered = errorState
    /\ inflight < MaxInflight
    /\ IF retryPermitted(rendered)
       THEN /\ errorState' = [errorState EXCEPT !.isRetrying = TRUE,
                                               !.retryCount = errorState.retryCount + 1,
                                               !.lastRetryTime = Some(now)]
            /\ inflight' = inflight + 1
            /\ lastRetry' = [called |-> TRUE, pre |-> errorState, invoked |-> TRUE]
       ELSE /\ lastRetry' = [called |-> TRUE, pre |-> errorState, invoked |-> FALSE]
            /\ UNCHANGED <<errorState, inflight>>
    /\ thunk' = NoThunk
    /\ UNCHANGED <<rendered, cacheVars, apiVars, clsVars, appVars>>

\* retry is called again through a handler of an earlier render, before the
\* update of the previous call is rendered: its test reads the state that
\* render closed over.
CallRetryStale ==
    /\ NoneSettling
    /\ rendered # errorState
    /\ inflight < MaxInflight
    /\ errorState.retryCount < MaxRetryCount
    /\ IF retryPermitted(rendered)
       THEN /\ errorState' = [errorState EXCEPT !.isRetrying = TRUE,
                                               !.retryCount = errorState.retryCount + 1,
                                               !.lastRetryTime = Some(now)]
            /\ inflight' = inflight + 1
            /\ lastRetry' = [called |-> TRUE, pre |-> rendered, invoked |-> TRUE]
       ELSE /\ lastRetry' = [called |-> TRUE, pre |-> rendered, invoked |-> FALSE]
            /\ UNCHANGED <<errorState, inflight>>
    /\ thunk' = NoThunk
    /\ UNCHANGED <<rendered, cacheVars, apiVars, clsVars, appVars>>

\* await retryFn() resolves: clearError().
ThunkResolves ==
    /\ NoneSettling
    /\ inflight > 0
    /\ inflight' = inflight - 1
    /\ errorState' = clearError
    /\ lastRetry' = NoRetry
    /\ thunk' = NoThunk
    /\ UNCHANGED <<rendered, cacheVars, apiVars, clsVars, appVars>>

\* await retryFn() rejects with e: the catch block's functional update.
ThunkRejects(e) ==
    /\ NoneSettling
    /\ inflight > 0
    /\ inflight' = inflight - 1
    /\ errorState' = [errorState EXCEPT !.isRetrying = FALSE, !.error = Some(e)]
    /\ lastRetry' = NoRetry
    /\ thunk' = NoThunk
    /\ UNCHANGED <<rendered, cacheVars, apiVars, clsVars, appVars>>

(***************************************************************************)
(* ErrorDisplay (components/ErrorDisplay.tsx): what it renders for an      *)
(* errorState, with onRetry / onDismiss supplied or not.                   *)
(***************************************************************************)
NoView ==
    [shown |-> FALSE, message |-> None, retryLine |-> FALSE, retryButton |-> FALSE,
     retryLabel |-> "", retryDisabled |-> FALSE, dismissButton |-> FALSE]

\* Variant: the button test without the retryable flag.
canRetryAnyError(st, onRetry) ==
    onRetry /\ st.retryCount < 3

\* const canRetry = error.retryable && onRetry && retryCount < 3
canRetry(st, onRetry) ==
    st.error[1].retryable /\ onRetry /\ st.retryCount < 3

ErrorDisplay(st, onRetry, onDismiss) ==
    IF ~st.hasError \/ st.error = None THEN NoView
    ELSE [shown         |-> TRUE,
          message       |-> Some(st.error[1].message),
          retryLine     |-> st.retryCount > 0,
          retryButton   |-> canRetry(st, onRetry),
          retryLabel    |-> IF ~canRetry(st, onRetry) THEN ""
                            ELSE IF st.isRetrying THEN "Retrying..." ELSE "Try Again",
          retryDisabled |-> canRetry(st, onRetry) /\ st.isRetrying,
          dismissButton |-> onDismiss]

(***************************************************************************)
(* SearchScreen (components/SearchScreen.tsx): the component that shows    *)
(* ErrorDisplay over useErrorHandler, with onRetry = handleRetrySearch or  *)
(* handleRetrySave and onDismiss = clearError.                             *)
(***************************************************************************)
\* What SearchScreen currently shows.
ScreenView == ErrorDisplay(rendered, TRUE, TRUE)

\* The user clicks the retry button: handleRetrySearch / handleRetrySave
\* call retry(retryFn).
ClickRetry ==
    /\ ScreenView.retryButton
    /\ ~ScreenView.retryDisabled
    /\ CallRetry

\* The repeated request of a retryFn fails: its own catch block calls
\* setError(apiError), and the retryFn then returns normally.
ThunkCatches(e) ==
    /\ NoneSettling
    /\ inflight > 0
    /\ errorState' = setError(e)
    /\ thunk' = [phase |-> "caught", error |-> Some(e), count |-> errorState.retryCount]
    /\ lastRetry' = NoRetry
    /\ UNCHANGED <<rendered, inflight, cacheVars, apiVars, clsVars, appVars>>

\* retry's await on that retryFn continues: clearError().
ThunkSettles ==
    /\ thunk.phase = "caught"
    /\ inflight' = inflight - 1
    /\ errorState' = clearError
    /\ thunk' = [thunk EXCEPT !.phase = "settled"]
    /\ lastRetry' = NoRetry
    /\ UNCHANGED <<rendered, cacheVars, apiVars, clsVars, appVars>>

(***************************************************************************)
(* Specifications.                                                         *)
(***************************************************************************)
AppIdle ==
    /\ FlightIdle
    /\ NetIdle
    /\ AuthIdle

ClassifierIdle ==
    /\ thrown = None
    /\ classified = None

UiIdle ==
    /\ errorState = IdleErrorState
    /\ rendered = IdleErrorState
    /\ inflight = 0
    /\ lastRetry = NoRetry
    /\ thunk = NoThunk

ApiIdle ==
    /\ pc = "idle"
    /\ req = NoRequest
    /\ attempt = 0
    /\ calls = 0
    /\ waits = <<>>
    /\ delay = 0
    /\ lastStatus = 0
    /\ intercepted = None
    /\ lastError = None
    /\ allServer = TRUE
    /\ result = NoResult
    /\ probe = NoProbe
    /\ cacheReads = 0
    /\ cacheWrites = 0
    /\ invocations = 0
    /\ ticks = 0

CacheIdle ==
    /\ now = 0
    /\ storage = EmptyStorage
    /\ lastCall = NoCall
    /\ insertLog = <<>>
    /\ logOk = enabled

\* The application: the exported caches, the operations of apiService.
Init ==
    /\ enabled \in BOOLEAN
    /\ CacheIdle
    /\ conf = [s \in StorageKeys |-> ExportedConf(s)]
    /\ retryConfig = DEFAULT_RETRY_CONFIG
    /\ ApiIdle
    /\ UiIdle
    /\ ClassifierIdle
    /\ AppIdle

Next ==
    \/ \E op \in {"searchItems", "searchItemsGet"}, q \in Queries : Start(op, q)
    \/ \E op \in Ops \ {"searchItems", "searchItemsGet"} : Start(op, "-")
    \/ \E data \in Payloads : AttemptSuccess(data)
    \/ \E raw \in RawFailures : AttemptFail(raw)
    \/ Sleep
    \/ Return
    \/ TickApi

Spec == Init /\ [][Next]_vars

\* The application when the caller only lists saved items, changes them
\* and checks the service's health.
NextSaved ==
    \/ \E op \in PlainOps \cup {"getSavedItems"} : Start(op, "-")
    \/ \E data \in Payloads : AttemptSuccess(data)
    \/ \E raw \in RawFailures : AttemptFail(raw)
    \/ Sleep
    \/ Return
    \/ TickApi

SpecSaved == Init /\ [][NextSaved]_vars

\* retryRequest with a retryConfig argument, around the request function
\* of a cacheable read and of a plain operation.
InitRetry ==
    /\ enabled = TRUE
    /\ CacheIdle
    /\ conf = [s \in StorageKeys |-> ExportedConf(s)]
    /\ retryConfig \in RetryConfigs
    /\ ApiIdle
    /\ UiIdle
    /\ ClassifierIdle
    /\ AppIdle

NextRetry ==
    \/ \E op \in {"getSavedItems", "healthCheck"} : Start(op, "-")
    \/ \E data \in Payloads : AttemptSuccess(data)
    \/ \E raw \in RawFailures : AttemptFail(raw)
    \/ Sleep
    \/ Return

SpecRetry == InitRetry /\ [][NextRetry]_vars

\* One component's useErrorHandler, driven by the component, the user and
\* the retry functions in flight.
InitUi ==
    /\ enabled = TRUE
    /\ CacheIdle
    /\ conf = [s \in StorageKeys |-> ExportedConf(s)]
    /\ retryConfig = DEFAULT_RETRY_CONFIG
    /\ ApiIdle
    /\ UiIdle
    /\ ClassifierIdle
    /\ AppIdle

NextUi ==
    \/ \E e \in UiErrors : CallSetError(e)
    \/ CallClearError
    \/ Render
    \/ CallRetry
    \/ ThunkResolves
    \/ \E e \in UiErrors : ThunkRejects(e)

SpecUi == InitUi /\ [][NextUi]_vars

\* useErrorHandler called as a hook: retry is also called through the
\* handler of an earlier render.
NextHook ==
    \/ \E e \in UiErrors : CallSetError(e)
    \/ CallClearError
    \/ Render
    \/ CallRetry
    \/ CallRetryStale
    \/ ThunkResolves
    \/ \E e \in UiErrors : ThunkRejects(e)

SpecHook == InitUi /\ [][NextHook]_vars

\* SearchScreen: searches and saves fail (setError), the user retries and
\* dismisses through ErrorDisplay, the retry functions run.
NextScreen ==
    \/ \E e \in UiErrors : CallSetError(e)
    \/ CallClearError
    \/ Render
    \/ ClickRetry
    \/ ThunkResolves
    \/ \E e \in UiErrors : ThunkCatches(e)
    \/ ThunkSettles

SpecScreen == InitUi /\ [][NextScreen]_vars

\* The application in a session that finds the search cache full: earlier
\* searches q1 .. q50, one a second, are stored, and the session starts
\* either right after the last of them or when the first has expired.
FullQueries == {"tv", "q1"}
FullPayloads == [id : PayloadIds, query : FullQueries]
FullFailures == {NetworkFailure, HttpFailure(503, None, None), HttpFailure(400, None, None)}

EarlierSearch(i) ==
    [key       |-> cacheKey("searchItems", "q" \o ToString(i), DefaultLimit),
     data      |-> [id |-> "p1", query |-> "q" \o ToString(i)],
     timestamp |-> i * 1000,
     expiresAt |-> i * 1000 + ExportedConf(SEARCH_CACHE).maxAge]

FullSearchCache ==
    [i \in 1..ExportedConf(SEARCH_CACHE).maxItems |-> EarlierSearch(i)]

InitFull ==
    /\ enabled = TRUE
    /\ now \in {FullSearchCache[Len(FullSearchCache)].timestamp,
                FullSearchCache[1].expiresAt + 1}
    /\ storage = [EmptyStorage EXCEPT ![SEARCH_CACHE] = setCache(FullSearchCache)]
    /\ lastCall = NoCall
    /\ insertLog = <<>>
    /\ logOk = FALSE
    /\ conf = [s \in StorageKeys |-> ExportedConf(s)]
    /\ retryConfig = DEFAULT_RETRY_CONFIG
    /\ ApiIdle
    /\ UiIdle
    /\ ClassifierIdle
    /\ AppIdle

NextFull ==
    \/ \E q \in FullQueries : Start("searchItems", q)
    \/ \E data \in FullPayloads : AttemptSuccess(data)
    \/ \E raw \in FullFailures : AttemptFail(raw)
    \/ Sleep
    \/ Return

SpecFull == InitFull /\ [][NextFull]_vars

\* categorizeError applied to each error object.
InitClassifier ==
    /\ enabled = TRUE
    /\ CacheIdle
    /\ conf = [s \in StorageKeys |-> ExportedConf(s)]
    /\ retryConfig = DEFAULT_RETRY_CONFIG
    /\ ApiIdle
    /\ UiIdle
    /\ ClassifierIdle
    /\ AppIdle

NextClassifier ==
    \/ \E error \in ClassifierInputs : Classify(error)
    \/ ClassifyReturn

SpecClassifier == InitClassifier /\ [][NextClassifier]_vars

\* One OfflineCache instance with a small configuration, called directly.
InitCache ==
    /\ enabled \in BOOLEAN
    /\ CacheIdle
    /\ \E c \in TestConfigs :
          conf = [s \in StorageKeys |-> IF s = TEST_CACHE THEN c ELSE ExportedConf(s)]
    /\ retryConfig = DEFAULT_RETRY_CONFIG
    /\ ApiIdle
    /\ UiIdle
    /\ ClassifierIdle
    /\ AppIdle

NextCache ==
    \/ \E k \in TestKeys, d \in TestPayloads, a \in SetAges : CallSet(k, d, a)
    \/ \E k \in TestKeys : CallGet(k)
    \/ \E k \in TestKeys : CallHas(k)
    \/ \E k \in TestKeys : CallRemove(k)
    \/ CallClear
    \/ CallGetKeys
    \/ CallGetSize
    \/ TickCache

SpecCache == InitCache /\ [][NextCache]_vars

\* The application with invocations of the cacheable reads overlapping.
NextOverlap ==
    \/ \E i \in Flights, op \in {"searchItems", "searchItemsGet"} : Issue(i, op, "tv")
    \/ \E i \in Flights : Issue(i, "getSavedItems", "-")
    \/ \E i \in Flights, data \in Payloads : Arrive(i, data)
    \/ TickFlight

SpecOverlap == Init /\ [][NextOverlap]_vars

\* One component using useOfflineDetection, rendered first when the
\* browser is online or offline, with or without navigator.connection.
InitNet ==
    /\ enabled = TRUE
    /\ CacheIdle
    /\ conf = [s \in StorageKeys |-> ExportedConf(s)]
    /\ retryConfig = DEFAULT_RETRY_CONFIG
    /\ ApiIdle
    /\ UiIdle
    /\ ClassifierIdle
    /\ FlightIdle
    /\ AuthIdle
    /\ \E onLine \in BOOLEAN, connection \in Connections :
          /\ offlineState = InitialOfflineState(onLine, now)
          /\ nav = [connection |-> connection, mounted |-> FALSE, events |-> NoEvents]

NextNet ==
    \/ Mount
    \/ Online
    \/ Offline
    \/ \E connection \in Connections : ConnectionChange(connection)
    \/ TickNet

SpecNet == InitNet /\ [][NextNet]_vars

\* AuthProvider mounted over what localStorage holds at startup, with a
\* backend that accepts the stored token or not.
StartupLocals ==
    {NoLocal} \cup [token : {Some(TokenOf(u)) : u \in Users},
                    user : {None, Some(Unparseable)} \cup {Some(u) : u \in Users}]

InitAuth ==
    /\ enabled = TRUE
    /\ CacheIdle
    /\ conf = [s \in StorageKeys |-> ExportedConf(s)]
    /\ retryConfig = DEFAULT_RETRY_CONFIG
    /\ ApiIdle
    /\ UiIdle
    /\ ClassifierIdle
    /\ FlightIdle
    /\ NetIdle
    /\ auth = InitialAuth
    /\ local \in StartupLocals
    /\ \E accepts \in BOOLEAN : authCalls = [NoAuthCalls EXCEPT !.accepts = accepts]

NextAuth ==
    \/ InitializeAuth
    \/ InitSettles
    \/ LoginStart
    \/ \E u \in Users : LoginSucceeds(u)
    \/ LoginFails
    \/ Logout
    \/ CallRefreshUser
    \/ \E ok \in BOOLEAN : RefreshAnswered(ok)

SpecAuth == InitAuth /\ [][NextAuth]_vars

\* The application used by one user after another: sessions change between
\* invocations of getSavedItems.
InitSession ==
    /\ enabled = TRUE
    /\ CacheIdle
    /\ conf = [s \in StorageKeys |-> ExportedConf(s)]
    /\ retryConfig = DEFAULT_RETRY_CONFIG
    /\ ApiIdle
    /\ UiIdle
    /\ ClassifierIdle
    /\ FlightIdle
    /\ NetIdle
    /\ auth = [InitialAuth EXCEPT !.isLoading = FALSE]
    /\ local = NoLocal
    /\ authCalls = [NoAuthCalls EXCEPT !.init = "past"]

NextSession ==
    \/ pc = "idle" /\ LoginStart
    \/ \E u \in Users : LoginSucceeds(u)
    \/ LoginFails
    \/ pc = "idle" /\ Logout
    \/ isAuthenticated /\ ~authCalls.login /\ Start("getSavedItems", "-")
    \/ SavedItemsAnswered
    \/ \E raw \in {NetworkFailure, HttpFailure(500, None, None)} : AttemptFail(raw)
    \/ Sleep
    \/ Return

SpecSession == InitSession /\ [][NextSession]_vars

\* The same instance over a localStorage that can fail.
FaultKeys == {"key1", "key2"}
FaultPayloads == {[id |-> "p1", query |-> "-"]}

NextFaults ==
    \/ \E k \in FaultKeys, d \in FaultPayloads, a \in SetAges : CallSet(k, d, a)
    \/ \E k \in FaultKeys : CallGet(k)
    \/ \E k \in FaultKeys : CallHas(k)
    \/ \E k \in FaultKeys : CallRemove(k)
    \/ CallClear
    \/ CallGetKeys
    \/ CallGetSize
    \/ \E f \in StorageFaults, k \in FaultKeys, d \in FaultPayloads, a \in SetAges :
          FaultySet(f, k, d, a)
    \/ \E f \in StorageFaults, k \in FaultKeys : FaultyGet(f, k)
    \/ \E f \in StorageFaults, k \in FaultKeys : FaultyHas(f, k)
    \/ \E f \in StorageFaults, k \in FaultKeys : FaultyRemove(f, k)
    \/ \E f \in StorageFaults : FaultyClear(f)
    \/ \E f \in StorageFaults : FaultyGetKeys(f)
    \/ \E f \in StorageFaults : FaultyGetSize(f)
    \/ Garble
    \/ TickCache

SpecFaults == InitCache /\ [][NextFaults]_vars

\* The same instance, set called with every kind of maxAge argument.
NextAges ==
    \/ \E k \in FaultKeys, d \in FaultPayloads, a \in OverrideAges : CallSet(k, d, a)
    \/ \E k \in FaultKeys : CallGet(k)
    \/ \E k \in FaultKeys : CallRemove(k)
    \/ TickCache

SpecAges == InitCache /\ [][NextAges]_vars

(***************************************************************************)
(* Properties.                                                             *)
(***************************************************************************)
\* retryRequest has thrown its ApiError and the operation has ended.
TerminalFailure == pc = "done" /\ probe.failed

\* C1: after a transport attempt that the backend answered with HTTP 400 or
\* 401 the operation is over: no timer is armed and no further attempt is
\* made, so the transport call is made exactly once.
C1_NoRetryAfter400Or401 ==
    lastStatus \in {400, 401} =>
        /\ pc = "done"
        /\ delay = 0
        /\ attempt = 0 => (calls = 1 /\ waits = <<>>)

\* C2: under a policy with maxRetries = N, an invocation in which every
\* attempt failed with a retryable classification made exactly N + 1
\* transport calls separated by N waits before retryRequest threw (with
\* N = 0: one call, no wait); retryRequest never makes more than N + 1 calls.
C2_RetryBound ==
    /\ calls <= retryConfig.maxRetries + 1
    /\ (TerminalFailure /\ lastError[1].retryable) =>
          /\ calls = retryConfig.maxRetries + 1
          /\ Len(waits) = retryConfig.maxRetries
          /\ result.kind # "none"

C2_Witness ==
    /\ TerminalFailure
    /\ retryConfig.maxRetries = 2
    /\ calls = 3
    /\ lastError[1].retryable

\* C3: the error handed to the caller on terminal failure carries the code
\* that the HTTP status of the failing response determines.
ExpectedCode(status) ==
    CASE status = 400 -> "VALIDATION_ERROR"
      [] status = 401 -> "AUTH_ERROR"
      [] status = 429 -> "RATE_LIMIT_ERROR"
      [] OTHER        -> "SERVER_ERROR"

C3_TerminalErrorCarriesStatusCode ==
    (TerminalFailure /\ result.kind = "error"
                     /\ lastStatus \in {400, 401, 429, 500, 502, 503, 504}) =>
        /\ result.error[1].code = ExpectedCode(lastStatus)
        /\ result.error[1].retryable = (lastStatus \notin {400, 401})
        /\ lastStatus = 429 => result.error[1].retryAfter = intercepted[1].retryAfter

\* C4: a cacheable read whose attempts were all answered 500/502/503/504
\* propagates the error and does not consult the cache.
C4_NoCacheFallbackOnServerError ==
    (TerminalFailure /\ req.op \in CacheableOps /\ allServer) =>
        (result.kind = "error" /\ cacheReads = 0)

\* C5: a cacheable read that ends in terminal failure classified Network or
\* Timeout returns the payload stored under its key, marked cached, when a
\* non-expired item (expiresAt > now) is stored under the key, and the
\* classified error otherwise; a fresh result is never marked cached.
C5_CacheFallbackOnNetworkOrTimeout ==
    /\ (TerminalFailure /\ req.op \in CacheableOps /\ servesCache(lastError[1])) =>
          IF probe.pre # None /\ probe.pre[1].expiresAt > probe.at
          THEN /\ result.kind = "data"
               /\ result.data[1].cached
               /\ result.data[1].id = probe.pre[1].data.id
          ELSE /\ result.kind = "error"
               /\ result.error = lastError
    /\ (pc = "done" /\ ~probe.failed) => ~result.data[1].cached

\* C6: a non-cacheable operation never reads or writes a cache: while it
\* runs both stores stay as they are and no get/set is called, and on
\* terminal failure the caller receives the classified error.
C6_PlainOpsLeaveCachesAlone ==
    /\ [](req.op \in PlainOps => (cacheReads = 0 /\ cacheWrites = 0))
    /\ []((TerminalFailure /\ req.op \in PlainOps) =>
              (result.kind = "error" /\ result.error = lastError))
    /\ [][req.op \in PlainOps => storage' = storage]_vars

C6_Witness ==
    /\ TerminalFailure
    /\ req.op = "updateSavedItem"
    /\ lastError[1].code = "NETWORK_ERROR"
    /\ storage[SAVED_CACHE] # None
    /\ getCache(storage[SAVED_CACHE]) # <<>>

\* C7: when an attempt fails with a RateLimit classification carrying
\* retryAfter = s and a retry is still allowed, the wait before the next
\* attempt is exactly s * 1000 ms.
C7_RateLimitWaitsRetryAfter ==
    (pc = "sleep" /\ intercepted[1].code = "RATE_LIMIT_ERROR"
                  /\ ~intercepted[1].retryAfter[1].nan) =>
        delay = intercepted[1].retryAfter[1].n * 1000

\* C8: the wait after the failed attempt with index i, for a retryable
\* failure that is not RateLimit, is min(retryDelay * multiplier^i,
\* maxRetryDelay); with the defaults an invocation whose attempts are all
\* answered 5xx waits 1000, 2000, 4000 ms and fails on the 4th attempt.
ScheduleOf(cfg, i) ==
    LET d == cfg.retryDelay * Pow(cfg.backoffMultiplier, i)
    IN  IF d > cfg.maxRetryDelay THEN cfg.maxRetryDelay ELSE d

C8_ExponentialBackoff ==
    /\ (pc = "sleep" /\ lastError[1].code # "RATE_LIMIT_ERROR") =>
          /\ attempt < retryConfig.maxRetries
          /\ delay = ScheduleOf(retryConfig, attempt)
          /\ \A i \in 1..Len(waits) : waits[i] = ScheduleOf(retryConfig, i - 1)
    /\ (TerminalFailure /\ retryConfig = DEFAULT_RETRY_CONFIG /\ allServer) =>
          (waits = <<1000, 2000, 4000>> /\ calls = 4 /\ delay = 0)

C8_Witness ==
    /\ TerminalFailure
    /\ retryConfig = DEFAULT_RETRY_CONFIG
    /\ allServer
    /\ lastStatus = 503
    /\ waits = <<1000, 2000, 4000>>

\* C9: with caching enabled, a get (or has) of a key under which an item is
\* stored returns its data exactly when expiresAt > now, and absent when
\* now >= expiresAt; has agrees with get.
C9_GetHonoursExpiry ==
    (enabled /\ lastCall.op \in {"get", "has"} /\ lastCall.pre # None) =>
        /\ lastCall.pre[1].expiresAt > now => lastCall.value = Some(lastCall.pre[1].data)
        /\ lastCall.pre[1].expiresAt <= now => lastCall.value = None
        /\ lastCall.op = "has" => lastCall.present = (lastCall.value # None)

\* C10: after maxItems + n distinct keys (n >= 1) were inserted into an
\* empty store, none expiring meanwhile, exactly maxItems items are stored
\* and they are the maxItems most recently inserted ones.
LastInserted(n) ==
    {insertLog[i] : i \in (Len(insertLog) - n + 1)..Len(insertLog)}

C10_EvictionKeepsMostRecent ==
    (logOk /\ Len(insertLog) > conf[TEST_CACHE].maxItems) =>
        LET cache == getCache(storage[TEST_CACHE])
        IN  /\ Len(cache) = conf[TEST_CACHE].maxItems
            /\ {cache[i].key : i \in 1..Len(cache)} = LastInserted(conf[TEST_CACHE].maxItems)

\* C11: no call of set, get, has, remove, clear, getKeys or getSize raises to
\* its caller, whatever the store holds and however localStorage fails;
\* when the storage cannot be read or the stored text does not parse, reads
\* report nothing stored.
C11_StoreNeverRaises ==
    /\ ~lastCall.threw
    /\ (lastCall.fault = "denied" \/ storage[TEST_CACHE] = Some(InvalidJson)) =>
          /\ lastCall.value = None
          /\ ~lastCall.present
          /\ lastCall.keys = <<>>
          /\ lastCall.size = 0

\* C12: getKeys() lists exactly the keys of the stored items with
\* expiresAt > now and getSize() is their number.
LiveKeys == {getCache(storage[TEST_CACHE])[i].key :
                i \in {j \in 1..Len(getCache(storage[TEST_CACHE])) :
                          getCache(storage[TEST_CACHE])[j].expiresAt > now}}

C12_IntrospectionSkipsExpired ==
    /\ lastCall.op = "getKeys" =>
          {lastCall.keys[i] : i \in 1..Len(lastCall.keys)} = LiveKeys
    /\ lastCall.op = "getSize" => lastCall.size = Cardinality(LiveKeys)

\* C13: each time a set() call has finished, at most maxItems items are
\* persisted in the backing store.
C13_SetLeavesAtMostMaxItems ==
    lastCall.op = "set" =>
        Len(getCache(storage[TEST_CACHE])) <= conf[TEST_CACHE].maxItems

C15_HasErrorIffError ==
    errorState.hasError = (errorState.error # None)

\* C16: the retryable flag is a function of the kind: Network, Timeout,
\* RateLimit and Server errors are retryable, Validation and Auth errors
\* are not, whatever the HTTP status.
RetryableKinds == {"NETWORK_ERROR", "TIMEOUT_ERROR", "RATE_LIMIT_ERROR", "SERVER_ERROR"}

C16_RetryableIsFunctionOfKind ==
    classified # None =>
        /\ classified[1].code \in RetryableKinds \cup {"VALIDATION_ERROR", "AUTH_ERROR"}
        /\ classified[1].retryable = (classified[1].code \in RetryableKinds)

\* C17: a failure with no response is classified Timeout exactly when its
\* message reports the elapsed deadline, and Network otherwise; both are
\* retryable.
C17_TimeoutOnlyOnDeadline ==
    (classified # None /\ thrown[1].response = None) =>
        /\ classified[1].code = IF IncludesTimeout(thrown[1].message)
                                THEN "TIMEOUT_ERROR" ELSE "NETWORK_ERROR"
        /\ classified[1].retryable

\* C18: for a 429 response retryAfter is the number of seconds written in
\* the retry-after header, and 60 when the header is absent or is not a
\* number.
NumericHeaders == {"0", "5", "60"}
SecondsOf(text) == CASE text = "0" -> 0 [] text = "5" -> 5 [] OTHER -> 60

C18_RetryAfterParsedOrSixty ==
    (classified # None /\ thrown[1].response # None
                       /\ thrown[1].response[1].status = 429
                       /\ ~IncludesTimeout(thrown[1].message)
                       /\ thrown[1].code # "ECONNABORTED") =>
        LET header == thrown[1].response[1].retryAfter
        IN  classified[1].retryAfter =
                Some(Num(IF header # None /\ header[1] \in NumericHeaders
                         THEN SecondsOf(header[1]) ELSE 60))

\* C19: with caching enabled, when a cacheable read hands a fresh result to
\* its caller, a get on its cache key at that moment returns that payload.
FreshReturn ==
    /\ pc = "done"
    /\ req.op \in CacheableOps
    /\ result.kind = "data"
    /\ ~result.data[1].cached

C20_SuccessEndsTheInvocation ==
    (req.op \in CacheableOps /\ lastStatus = 200) =>
        /\ pc = "done"
        /\ result.kind = "data"
        /\ ~result.data[1].cached

\* C21: the attempts of one retryRequest invocation are sequential (an
\* attempt is made only after the wait that follows the previous one has
\* elapsed) and the waits of the invocation add up to at most the sum over
\* i = 0..maxRetries-1 of min(retryDelay * multiplier^i, maxRetryDelay).
RECURSIVE SumSeq(_)
SumSeq(q) == IF q = <<>> THEN 0 ELSE Head(q) + SumSeq(Tail(q))

RECURSIVE ScheduleSum(_, _)
ScheduleSum(cfg, n) ==
    IF n = 0 THEN 0 ELSE ScheduleSum(cfg, n - 1) + ScheduleOf(cfg, n - 1)

C23_FailedRetryEndsInError ==
    thunk.phase = "settled" =>
        /\ errorState.hasError
        /\ errorState.error = thunk.error
        /\ ~errorState.isRetrying
        /\ errorState.retryCount = thunk.count

\* C24: retryCount never exceeds 3 and at most one retry function is in
\* flight at a time.
C24_RetryBudgetAndSingleFlight ==
    /\ errorState.retryCount <= 3
    /\ inflight <= 1

\* C25: the entry a set(key, data, maxAge?) leaves under its key has
\* expiresAt > timestamp, and expiresAt = timestamp + maxAge when maxAge is
\* supplied (0 and negative values included), timestamp + the configured
\* maxAge otherwise.
C25_ExpiresAfterStored ==
    (lastCall.op = "set" /\ lastCall.fault = "none" /\ enabled
        /\ HasKey(getCache(storage[TEST_CACHE]), lastCall.key)) =>
        LET item == ItemOf(getCache(storage[TEST_CACHE]), lastCall.key)
        IN  /\ item.expiresAt > item.timestamp
            /\ item.expiresAt = item.timestamp +
                  (IF lastCall.maxAge = None THEN conf[TEST_CACHE].maxAge
                   ELSE lastCall.maxAge[1])

\* The invocation whose response arrived last among those that wrote the
\* entry invocation i wrote.
LastWriter(i) ==
    LET same == {p \in 1..Len(arrivals) :
                    /\ CacheOf(flights[arrivals[p]].op) = CacheOf(flights[i].op)
                    /\ FlightKey(arrivals[p]) = FlightKey(i)}
    IN  arrivals[CHOOSE p \in same : \A r \in same : r <= p]

C27_OfflineStateFollowsEvents ==
    LET ev == nav.events
    IN  /\ ev.last # "none" => (offlineState.isOffline = (ev.last = "offline"))
        /\ ev.kind = "offline" =>
              /\ offlineState.lastOnlineTime = ev.pre.lastOnlineTime
              /\ offlineState.connectionType = ev.pre.connectionType
        /\ ev.kind = "online" => offlineState.lastOfflineTime = ev.pre.lastOfflineTime
        /\ ev.onlineAt # None => offlineState.lastOnlineTime = ev.onlineAt
        /\ ev.offlineAt # None => offlineState.lastOfflineTime = ev.offlineAt

C27_Witness ==
    /\ nav.events.kind = "offline"
    /\ nav.events.onlineAt = Some(1)
    /\ nav.events.offlineAt = Some(2)
    /\ offlineState.isOffline
    /\ offlineState.lastOnlineTime = Some(1)
    /\ offlineState.connectionType = "wifi"

\* C28: a search answered from the cache returns a payload that was stored
\* for the query (and limit) it was invoked with: no other invocation's
\* (operation, query, limit) maps to its key.
C28_CacheKeyInjective ==
    (/\ TerminalFailure
     /\ req.op \in {"searchItems", "searchItemsGet"}
     /\ result.kind = "data"
     /\ result.data[1].cached) =>
          probe.pre[1].data.query = req.query

\* C29: a getSavedItems result served from the cache while a user is
\* authenticated holds the saved items of that user, not those fetched and
\* cached while another user was authenticated.
C29_CacheServesOwnSession ==
    (/\ TerminalFailure
     /\ req.op = "getSavedItems"
     /\ result.kind = "data"
     /\ result.data[1].cached
     /\ isAuthenticated) =>
          result.data[1].id = ItemsOf(auth.user[1]).id

\* C30: when localStorage held a token and a parseable user record at
\* startup and the backend accepts the token, then once initializeAuth has
\* finished the session is authenticated, localStorage still holds the
\* token and the user, and isLoading is false.
C30_ValidSessionSurvivesStartup ==
    (/\ authCalls.init = "finished"
     /\ authCalls.stored.token # None
     /\ authCalls.stored.user # None
     /\ ParseUser(authCalls.stored.user[1]) # None
     /\ authCalls.accepts) =>
          /\ isAuthenticated
          /\ local.token # None
          /\ local.user # None
          /\ ~auth.isLoading

====
